---- MODULE Spec2Model ----
(***************************************************************************)
(* Model of osdctl's "cluster support delete" subcommand                    *)
(* (cmd/cluster/support/delete.go): deleteOptions.run, createDeleteRequest  *)
(* and checkDelete.                                                         *)
(*                                                                          *)
(* Strings that the code inspects character by character (the API path,    *)
(* the response body) are sequences: a path is a sequence of one-character *)
(* strings, a body is a sequence of JSON tokens.  Go's nil is the record    *)
(* Nil; every request, response and error is a record with a "kind" field. *)
(***************************************************************************)
EXTENDS Integers, Sequences, FiniteSets, TLC

VARIABLES
    pc,             \* position of run() (or of the pure-function harness)
    isDryRun,       \* package-level flag --dry-run (delete.go:48)
    clusterID,      \* o.clusterID (delete.go:73)
    reasonID,       \* o.limitedSupportReasonID (delete.go:47)
    connection,     \* "none" | "open" | "closed"
    cluster,        \* clusterResponse.Body(): Nil or [kind, id]
    deleteRequest,  \* Nil or the request built by createDeleteRequest
    deleteResponse, \* Nil or the response returned by sendRequest
    err,            \* the err variable of run() (last assignment)
    events,         \* history: the externally visible steps, in order
    out,            \* history: the messages printed to stdout and stderr
    fatal,          \* history: which fatal precondition failed, "none" if none
    exit            \* how the process ended: "running" until it has

vars == <<pc, isDryRun, clusterID, reasonID, connection, cluster, deleteRequest,
          deleteResponse, err, events, out, fatal, exit>>

-----------------------------------------------------------------------------
(* Bounds of the model. *)

\* longest canonical cluster ID drawn for createDeleteRequest
MaxClusterIDLen == 1
\* longest limited-support-reason ID drawn for createDeleteRequest
MaxReasonIDLen == 3
\* longest response body, in JSON tokens, drawn for checkDelete
MaxBodyLen == 5
\* how many times the confirmation prompt may be shown again in one run
MaxPrompts == 2

-----------------------------------------------------------------------------
(* Values. *)

Nil == [kind |-> "nil"]
NoError == [kind |-> "noerror"]

\* http.StatusNoContent
StatusNoContent == 204

\* The characters IDs are drawn from: a letter, a digit (both hex digits),
\* the three characters url.Parse gives a meaning to, and a control byte
\* (a newline), which url.Parse rejects.
IDChars == {"a", "4", "%", "?", "#", "\\x0a"}

SeqsUpTo(S, n) == UNION {[1..k -> S] : k \in 0..n}

-----------------------------------------------------------------------------
(* net/url.Parse and URL.Query, as far as ApplyPathArg uses them. *)

HexDigits == <<"0", "1", "2", "3", "4", "5", "6", "7", "8", "9",
               "a", "b", "c", "d", "e", "f">>
UpperHexDigits == <<"0", "1", "2", "3", "4", "5", "6", "7", "8", "9",
                    "A", "B", "C", "D", "E", "F">>

\* net/url ishex
IsHex(c) == \E i \in 1..16 : HexDigits[i] = c \/ UpperHexDigits[i] = c

\* net/url unhex
Unhex(c) == (CHOOSE i \in 1..16 : HexDigits[i] = c \/ UpperHexDigits[i] = c) - 1

\* The printable ASCII characters, rows 0x20 .. 0x70 (the quote characters,
\* the backslash and DEL are spelled by their hex code).
Ascii == <<
  <<" ", "!", "\\x22", "#", "$", "%", "&", "\\x27", "(", ")", "*", "+", ",", "-", ".", "/">>,
  <<"0", "1", "2", "3", "4", "5", "6", "7", "8", "9", ":", ";", "<", "=", ">", "?">>,
  <<"@", "A", "B", "C", "D", "E", "F", "G", "H", "I", "J", "K", "L", "M", "N", "O">>,
  <<"P", "Q", "R", "S", "T", "U", "V", "W", "X", "Y", "Z", "[", "\\x5c", "]", "^", "_">>,
  <<"\\x60", "a", "b", "c", "d", "e", "f", "g", "h", "i", "j", "k", "l", "m", "n", "o">>,
  <<"p", "q", "r", "s", "t", "u", "v", "w", "x", "y", "z", "{", "|", "}", "~", "\\x7f">> >>

\* The byte hi<<4 | lo as a one-character string ("\xHL" outside printable ASCII).
ByteChar(hi, lo) ==
    IF hi \in 2..7 THEN Ascii[hi - 1][lo + 1]
    ELSE "\\x" \o HexDigits[hi + 1] \o HexDigits[lo + 1]

\* strings.Index for a single character: 0 when absent.
IndexOf(s, c) ==
    IF \E i \in 1..Len(s) : s[i] = c
    THEN CHOOSE i \in 1..Len(s) : s[i] = c /\ \A j \in 1..(i - 1) : s[j] # c
    ELSE 0

\* net/url unescape in path/fragment mode: every "%" must be followed by two
\* hex digits (else EscapeError) and the three characters are decoded to one
\* byte; every other character is copied.  One recursion per escape.
RECURSIVE Unescape(_)
Unescape(s) ==
    LET p == IndexOf(s, "%")
    IN  IF p = 0 THEN [ok |-> TRUE, val |-> s]
        ELSE IF p + 2 <= Len(s) /\ IsHex(s[p + 1]) /\ IsHex(s[p + 2])
        THEN LET r == Unescape(SubSeq(s, p + 3, Len(s)))
             IN  [ok |-> r.ok,
                  val |-> SubSeq(s, 1, p - 1)
                          \o <<ByteChar(Unhex(s[p + 1]), Unhex(s[p + 2]))>> \o r.val]
        ELSE [ok |-> FALSE, val |-> <<>>]

\* the bytes below 0x20 and 0x7f
ControlChars == {ByteChar(hi, lo) : hi \in 0..1, lo \in 0..15} \cup {ByteChar(7, 15)}

\* net/url stringContainsCTLByte
StringContainsCTLByte(s) == \E i \in 1..Len(s) : s[i] \in ControlChars

URLParseError(msg) == [ok |-> FALSE, err |-> msg, Path |-> <<>>, RawQuery |-> <<>>]

\* url.Parse(rawURL) for a rawURL that starts with "/" and not with "//" (no
\* scheme, no authority): the fragment is cut at the first "#"; what comes
\* before it must hold no control byte; the query is cut at the first "?";
\* the path and the fragment are unescaped.
URLParse(rawURL) ==
    LET h    == IndexOf(rawURL, "#")
        u    == IF h = 0 THEN rawURL ELSE SubSeq(rawURL, 1, h - 1)
        frag == IF h = 0 THEN <<>> ELSE SubSeq(rawURL, h + 1, Len(rawURL))
        q    == IndexOf(u, "?")
        rest == IF q = 0 THEN u ELSE SubSeq(u, 1, q - 1)
        rawq == IF q = 0 THEN <<>> ELSE SubSeq(u, q + 1, Len(u))
        p    == Unescape(rest)
        f    == Unescape(frag)
    IN  IF StringContainsCTLByte(u)
        THEN URLParseError("invalid control character in URL")
        ELSE IF p.ok /\ f.ok
        THEN [ok |-> TRUE, err |-> "", Path |-> p.val, RawQuery |-> rawq]
        ELSE URLParseError("invalid URL escape")

\* strings.Split(s, sep) for a one-character separator
RECURSIVE Split(_, _)
Split(s, sep) ==
    LET p == IndexOf(s, sep)
    IN  IF p = 0 THEN <<s>>
        ELSE <<SubSeq(s, 1, p - 1)>> \o Split(SubSeq(s, p + 1, Len(s)), sep)

\* url.QueryUnescape: "+" is a space, and escapes are decoded as in a path
QueryUnescape(s) ==
    Unescape([i \in 1..Len(s) |-> IF s[i] = "+" THEN " " ELSE s[i]])

\* url.ParseQuery with its error ignored, as URL.Query does: the pairs between
\* "&", each cut at its first "="; an empty pair, a pair holding ";" and a
\* pair whose key or value does not unescape are dropped.
ParseQueryPairs(rawq) ==
    LET pairs == Split(rawq, "&")
        Key(pr) == IF IndexOf(pr, "=") = 0 THEN pr
                   ELSE SubSeq(pr, 1, IndexOf(pr, "=") - 1)
        Val(pr) == IF IndexOf(pr, "=") = 0 THEN <<>>
                   ELSE SubSeq(pr, IndexOf(pr, "=") + 1, Len(pr))
        Kept(pr) == /\ pr # <<>>
                    /\ IndexOf(pr, ";") = 0
                    /\ QueryUnescape(Key(pr)).ok
                    /\ QueryUnescape(Val(pr)).ok
        kept == SelectSeq(pairs, Kept)
    IN  [i \in 1..Len(kept) |->
            [name |-> QueryUnescape(Key(kept[i])).val,
             value |-> QueryUnescape(Val(kept[i])).val]]

\* url.Values built from the pairs: each name with its values, in order
QueryValues(pairs) ==
    LET names == {pairs[i].name : i \in 1..Len(pairs)}
        Values(n) ==
            LET Named(pr) == pr.name = n
                sel == SelectSeq(pairs, Named)
            IN  [i \in 1..Len(sel) |-> sel[i].value]
    IN  [n \in names |-> Values(n)]

-----------------------------------------------------------------------------
(* createDeleteRequest *)

\* "/api/clusters_mgmt/v1/clusters/"
PathPrefix == <<"/", "a", "p", "i", "/", "c", "l", "u", "s", "t", "e", "r", "s", "_",
                "m", "g", "m", "t", "/", "v", "1", "/", "c", "l", "u", "s", "t", "e",
                "r", "s", "/">>
\* "/limited_support_reasons/"
PathMid == <<"/", "l", "i", "m", "i", "t", "e", "d", "_", "s", "u", "p", "p", "o", "r",
             "t", "_", "r", "e", "a", "s", "o", "n", "s", "/">>

\* faulty variant: the two IDs substituted in the other's place
TargetAPIPathSwapped(id, reason) == PathPrefix \o reason \o PathMid \o id

\* targetAPIPath (delete.go:139)
TargetAPIPath(id, reason) == PathPrefix \o id \o PathMid \o reason

\* arguments.ApplyPathArg(request, value): parse value as a URL, set the
\* request's path to the parsed path and add every parameter of parsed.Query()
\* to the request.
ApplyPathArg(request, value) ==
    LET parsed == URLParse(value)
    IN  IF parsed.ok
        THEN [err |-> NoError,
              request |-> [request EXCEPT
                              !.path = parsed.Path,
                              !.query = QueryValues(ParseQueryPairs(parsed.RawQuery))]]
        ELSE [err |-> [kind |-> "error", msg |-> parsed.err],
              request |-> request]

\* ocmClient.Delete(): a fresh DELETE request, with no parameters
NewDeleteRequest == [kind |-> "request", method |-> "DELETE", path |-> <<>>, query |-> <<>>]

\* createDeleteRequest(ocmClient, cluster, reasonID) (request, err)
createDeleteRequest(cl, reason) ==
    LET targetAPIPath == TargetAPIPath(cl.id, reason)
        applied == ApplyPathArg(NewDeleteRequest, targetAPIPath)
    IN  IF applied.err # NoError
        THEN [request |-> Nil,
              err |-> [kind |-> "error", msg |-> "cannot parse API path",
                       cause |-> applied.err.msg]]
        ELSE [request |-> applied.request, err |-> NoError]

-----------------------------------------------------------------------------
(* encoding/json, over token sequences: json.Valid and json.Unmarshal into a  *)
(* *support.BadReply.                                                          *)

\* string literals: "reason" names a field of BadReply, "x" names none
StrReason == "\"reason\""
StrOther == "\"x\""
IsStringToken(t) == t \in {StrReason, StrOther}

\* The tokens bodies are drawn from.  "not-json" is bare text that is no JSON
\* token at all.
BodyTokens == {"{", "}", "[", "]", ":", StrReason, StrOther, "1", "null", "not-json"}

\* support.BadReply: the JSON keys of its fields, all of Go type string
BadReplyStringFields == {StrReason}

ParseFail == [ok |-> FALSE, next |-> 0, type |-> "", members |-> <<>>]

\* The JSON grammar (encoding/json scanner), from token i of t on: the value's
\* type, the position after it, and for an object its members' keys and types.
RECURSIVE ParseValue(_, _)
RECURSIVE ParseMembers(_, _)
RECURSIVE ParseElements(_, _)

ParseValue(t, i) ==
    IF i > Len(t) THEN ParseFail
    ELSE IF t[i] = "null"
    THEN [ok |-> TRUE, next |-> i + 1, type |-> "null", members |-> <<>>]
    ELSE IF t[i] = "1"
    THEN [ok |-> TRUE, next |-> i + 1, type |-> "number", members |-> <<>>]
    ELSE IF IsStringToken(t[i])
    THEN [ok |-> TRUE, next |-> i + 1, type |-> "string", members |-> <<>>]
    ELSE IF t[i] = "{"
    THEN IF i + 1 <= Len(t) /\ t[i + 1] = "}"
         THEN [ok |-> TRUE, next |-> i + 2, type |-> "object", members |-> <<>>]
         ELSE LET m == ParseMembers(t, i + 1)
              IN  IF m.ok /\ m.next <= Len(t) /\ t[m.next] = "}"
                  THEN [ok |-> TRUE, next |-> m.next + 1, type |-> "object",
                        members |-> m.members]
                  ELSE ParseFail
    ELSE IF t[i] = "["
    THEN IF i + 1 <= Len(t) /\ t[i + 1] = "]"
         THEN [ok |-> TRUE, next |-> i + 2, type |-> "array", members |-> <<>>]
         ELSE LET e == ParseElements(t, i + 1)
              IN  IF e.ok /\ e.next <= Len(t) /\ t[e.next] = "]"
                  THEN [ok |-> TRUE, next |-> e.next + 1, type |-> "array",
                        members |-> <<>>]
                  ELSE ParseFail
    ELSE ParseFail

\* key ":" value { "," key ":" value }
ParseMembers(t, i) ==
    IF i + 1 <= Len(t) /\ IsStringToken(t[i]) /\ t[i + 1] = ":"
    THEN LET v == ParseValue(t, i + 2)
             this == <<[key |-> t[i], type |-> v.type]>>
         IN  IF ~v.ok THEN ParseFail
             ELSE IF v.next <= Len(t) /\ t[v.next] = ","
             THEN LET more == ParseMembers(t, v.next + 1)
                  IN  IF more.ok
                      THEN [more EXCEPT !.members = this \o more.members]
                      ELSE ParseFail
             ELSE [ok |-> TRUE, next |-> v.next, type |-> "", members |-> this]
    ELSE ParseFail

\* value { "," value }
ParseElements(t, i) ==
    LET v == ParseValue(t, i)
    IN  IF ~v.ok THEN ParseFail
        ELSE IF v.next <= Len(t) /\ t[v.next] = ","
        THEN ParseElements(t, v.next + 1)
        ELSE [ok |-> TRUE, next |-> v.next, type |-> "", members |-> <<>>]

\* the whole body is exactly one JSON value
ParseBody(body) ==
    LET v == ParseValue(body, 1)
    IN  IF v.ok /\ v.next = Len(body) + 1 THEN v ELSE ParseFail

\* json.Valid(body)
JSONValid(body) == ParseBody(body).ok

\* json.Unmarshal(body, &badReply), badReply a nil *support.BadReply: a syntax
\* error for an invalid body; null leaves the pointer nil; an object fills the
\* fields its keys name, and a value that is neither a string nor null for a
\* string field is an UnmarshalTypeError, as is any top-level value that is not
\* an object.  Keys that name no field are skipped.
Unmarshal(body) ==
    LET v == ParseBody(body)
    IN  IF ~v.ok THEN [kind |-> "error", msg |-> "SyntaxError"]
        ELSE IF v.type = "null" THEN NoError
        ELSE IF v.type = "object"
        THEN IF \A k \in 1..Len(v.members) :
                    v.members[k].key \in BadReplyStringFields
                        => v.members[k].type \in {"string", "null"}
             THEN NoError
             ELSE [kind |-> "error", msg |-> "UnmarshalTypeError"]
        ELSE [kind |-> "error", msg |-> "UnmarshalTypeError"]

-----------------------------------------------------------------------------
(* checkDelete *)

SuccessMessage == "Limited support reason deleted successfully"
InvalidJSONError ==
    [kind |-> "error", msg |-> "server returned invalid JSON", cause |-> ""]

\* The result of a call of checkDelete: the error returned, the lines printed,
\* and whether the call panicked instead of returning.
CheckResult(e, printed, panicked) == [err |-> e, out |-> printed, panic |-> panicked]

\* faulty variant: the body is validated before the status is looked at
checkDeleteValidFirst(response) ==
    IF response.kind = "nil" THEN CheckResult(NoError, <<>>, TRUE)
    ELSE IF ~JSONValid(response.body) THEN CheckResult(InvalidJSONError, <<>>, FALSE)
    ELSE IF response.status = StatusNoContent
    THEN CheckResult(NoError, <<SuccessMessage>>, FALSE)
    ELSE CheckResult(NoError, <<>>, FALSE)

\* faulty variant: json.Valid is not called, the body goes straight to Unmarshal
checkDeleteNoValid(response) ==
    IF response.kind = "nil" THEN CheckResult(NoError, <<>>, TRUE)
    ELSE IF response.status = StatusNoContent
    THEN CheckResult(NoError, <<SuccessMessage>>, FALSE)
    ELSE LET u == Unmarshal(response.body)
         IN  IF u.kind = "error"
             THEN CheckResult([kind |-> "error",
                               msg |-> "cannot parse the error JSON meessage",
                               cause |-> u.msg], <<>>, FALSE)
             ELSE CheckResult(NoError, <<>>, FALSE)

\* faulty variant: a parsed bad reply is returned as an error
checkDeleteBadReplyIsError(response) ==
    IF response.kind = "nil" THEN CheckResult(NoError, <<>>, TRUE)
    ELSE IF response.status = StatusNoContent
    THEN CheckResult(NoError, <<SuccessMessage>>, FALSE)
    ELSE IF ~JSONValid(response.body) THEN CheckResult(InvalidJSONError, <<>>, FALSE)
    ELSE CheckResult([kind |-> "error", msg |-> "bad reply", cause |-> ""], <<>>, FALSE)

\* checkDelete(response): response.Bytes() on a nil *sdk.Response dereferences
\* nil and panics; otherwise 204 prints the success message, an invalid body
\* and an unparsable body are errors, and anything else returns nil.
checkDelete(response) ==
    IF response.kind = "nil" THEN CheckResult(NoError, <<>>, TRUE)
    ELSE IF response.status = StatusNoContent
    THEN CheckResult(NoError, <<SuccessMessage>>, FALSE)
    ELSE IF ~JSONValid(response.body) THEN CheckResult(InvalidJSONError, <<>>, FALSE)
    ELSE LET u == Unmarshal(response.body)
         IN  IF u.kind = "error"
             THEN CheckResult([kind |-> "error",
                               msg |-> "cannot parse the error JSON meessage",
                               cause |-> u.msg], <<>>, FALSE)
             ELSE CheckResult(NoError, <<>>, FALSE)

-----------------------------------------------------------------------------
(* Collaborators of run() that live outside delete.go. *)

\* The answers the interactive user can give to the confirmation prompt.
Answers == {"yes", "no", "other"}

\* confirmSend(): "yes" returns, "no" ends the process inside confirmSend,
\* anything else shows the prompt again.
confirmSend(answer) ==
    CASE answer = "yes" -> "confirmed"
      [] answer = "no" -> "aborted"
      [] OTHER -> "reprompt"

\* sendRequest(request): request.Send() on a nil *sdk.Request dereferences nil
\* and panics; a transport failure returns (nil, error); otherwise the
\* server's response is returned.
sendRequest(request, transportOK, response) ==
    IF request.kind = "nil"
    THEN [response |-> Nil, err |-> NoError, panic |-> TRUE, sent |-> FALSE]
    ELSE IF transportOK
    THEN [response |-> response, err |-> NoError, panic |-> FALSE, sent |-> TRUE]
    ELSE [response |-> Nil, err |-> [kind |-> "error", msg |-> "cannot send request"],
          panic |-> FALSE, sent |-> TRUE]

-----------------------------------------------------------------------------
(* deleteOptions.run *)

\* The inputs of one run of the command.
RunClusterIDs == {<<"a">>, <<"4", "a">>}
RunReasonIDs == {<<"a">>, <<"%">>, <<"a", "?", "4">>, <<"\\x0a">>}
CanonicalIDs == {<<"4">>, <<"a", "4">>}
\* the statuses a response is drawn with: 204 and 400 (Bad Request)
Statuses == {StatusNoContent, 400}
RunBodies == {<<>>, <<"not-json">>, <<"{", "}">>, <<"[", "]">>,
              <<"{", StrReason, ":", StrReason, "}">>}
RunResponses == [kind : {"response"}, status : Statuses, body : RunBodies]

Count(seq, x) == Cardinality({i \in 1..Len(seq) : seq[i] = x})

\* The state run() starts in: flags parsed, complete() done.
Init ==
    /\ pc = "token"
    /\ isDryRun \in BOOLEAN
    /\ clusterID \in RunClusterIDs
    /\ reasonID \in RunReasonIDs
    /\ connection = "none"
    /\ cluster = Nil
    /\ deleteRequest = Nil
    /\ deleteResponse = Nil
    /\ err = NoError
    /\ events = <<>>
    /\ out = <<>>
    /\ fatal = "none"
    /\ exit = "running"

\* os.Exit(1) / log.Fatalf: the process ends at once; deferred calls do not run.
OsExit(status, why) ==
    /\ pc' = "exited"
    /\ exit' = status
    /\ fatal' = why
    /\ UNCHANGED connection

\* return nil from run(): the deferred connection.Close() runs.
ReturnNil(ev) ==
    /\ pc' = "exited"
    /\ exit' = "return_nil"
    /\ connection' = "closed"
    /\ events' = ev \o <<"close">>
    /\ UNCHANGED fatal

\* A panic unwinding run(): the deferred connection.Close() runs, then the
\* runtime ends the process with status 2.
Panic(ev) ==
    /\ pc' = "exited"
    /\ exit' = "panic"
    /\ connection' = "closed"
    /\ events' = ev \o <<"close">>
    /\ UNCHANGED fatal

\* delete.go:84-92: OCM_TOKEN, or the ocm cli's token, or log.Fatalf
GetToken ==
    /\ pc = "token"
    /\ \E envToken \in BOOLEAN, ocmToken \in BOOLEAN :
        IF envToken \/ ocmToken
        THEN /\ pc' = "build"
             /\ UNCHANGED <<out, exit, fatal, connection>>
        ELSE /\ out' = Append(out, "OCM token not set")
             /\ OsExit("exit1", "token")
    /\ UNCHANGED <<isDryRun, clusterID, reasonID, cluster, deleteRequest,
                   deleteResponse, err, events>>

\* delete.go:93-100: build the connection and defer its Close
BuildConnection ==
    /\ pc = "build"
    /\ \E built \in BOOLEAN :
        IF built
        THEN /\ connection' = "open"
             /\ events' = Append(events, "build")
             /\ pc' = "dryrun"
             /\ UNCHANGED <<out, exit, fatal, err>>
        ELSE /\ err' = [kind |-> "error", msg |-> "build"]
             /\ out' = Append(out, "Can't build connection")
             /\ OsExit("exit1", "build")
             /\ UNCHANGED events
    /\ UNCHANGED <<isDryRun, clusterID, reasonID, cluster, deleteRequest, deleteResponse>>

\* faulty variant: the dry-run flag is not consulted
DryRunCheckIgnored ==
    /\ pc = "dryrun"
    /\ pc' = "confirm"
    /\ UNCHANGED <<isDryRun, clusterID, reasonID, connection, cluster, deleteRequest,
                   deleteResponse, err, events, out, fatal, exit>>

\* faulty variant: the confirmation prompt is skipped
DryRunCheckNoConfirm ==
    /\ pc = "dryrun"
    /\ IF isDryRun
       THEN ReturnNil(events)
       ELSE /\ pc' = "get"
            /\ UNCHANGED <<connection, events, fatal, exit>>
    /\ UNCHANGED <<isDryRun, clusterID, reasonID, cluster, deleteRequest,
                   deleteResponse, err, out>>

\* delete.go:102-105: stop here if dry-run
DryRunCheck ==
    /\ pc = "dryrun"
    /\ IF isDryRun
       THEN ReturnNil(events)
       ELSE /\ pc' = "confirm"
            /\ UNCHANGED <<connection, events, fatal, exit>>
    /\ UNCHANGED <<isDryRun, clusterID, reasonID, cluster, deleteRequest,
                   deleteResponse, err, out>>

\* delete.go:107-108: confirmSend(); its result is discarded
ConfirmSend ==
    /\ pc = "confirm"
    /\ \E answer \in Answers :
        LET outcome == confirmSend(answer)
        IN  CASE outcome = "confirmed" ->
                    /\ events' = events \o <<"prompt", "confirmed">>
                    /\ pc' = "get"
                    /\ UNCHANGED <<exit, fatal, connection>>
              [] outcome = "aborted" ->
                    /\ events' = Append(events, "prompt")
                    /\ pc' = "exited"
                    /\ exit' = "aborted"
                    /\ UNCHANGED <<fatal, connection>>
              [] OTHER ->
                    /\ Count(events, "prompt") < MaxPrompts
                    /\ events' = Append(events, "prompt")
                    /\ pc' = "confirm"
                    /\ UNCHANGED <<exit, fatal, connection>>
    /\ UNCHANGED <<isDryRun, clusterID, reasonID, cluster, deleteRequest,
                   deleteResponse, err, out>>

\* delete.go:110-117: GET the cluster; a failure is fatal
GetCluster ==
    /\ pc = "get"
    /\ \E found \in BOOLEAN, id \in CanonicalIDs :
        IF found
        THEN /\ cluster' = [kind |-> "cluster", id |-> id]
             /\ events' = Append(events, "GET")
             /\ pc' = "create"
             /\ UNCHANGED <<out, exit, fatal, connection, err>>
        ELSE /\ err' = [kind |-> "error", msg |-> "get"]
             /\ out' = Append(out, "Can't retrieve cluster")
             /\ events' = Append(events, "GET")
             /\ OsExit("exit1", "cluster")
             /\ UNCHANGED cluster
    /\ UNCHANGED <<isDryRun, clusterID, reasonID, deleteRequest, deleteResponse>>

\* faulty variant: a construction error ends run() with that error
CreateRequestAborts ==
    /\ pc = "create"
    /\ LET r == createDeleteRequest(cluster, reasonID)
       IN  /\ deleteRequest' = r.request
           /\ err' = r.err
           /\ IF r.err.kind = "error"
              THEN /\ pc' = "exited"
                   /\ exit' = "return_err"
                   /\ connection' = "closed"
                   /\ events' = Append(events, "close")
                   /\ UNCHANGED out
              ELSE /\ pc' = "send"
                   /\ UNCHANGED <<out, exit, connection, events>>
    /\ UNCHANGED <<isDryRun, clusterID, reasonID, cluster, deleteResponse, fatal>>

\* delete.go:119-122: build the request; an error is only printed
CreateRequest ==
    /\ pc = "create"
    /\ LET r == createDeleteRequest(cluster, reasonID)
       IN  /\ deleteRequest' = r.request
           /\ err' = r.err
           /\ out' = IF r.err.kind = "error" THEN Append(out, "failed post call") ELSE out
    /\ pc' = "send"
    /\ UNCHANGED <<isDryRun, clusterID, reasonID, connection, cluster, deleteResponse,
                   events, fatal, exit>>

\* delete.go:123-126: send the request; an error is only printed
SendRequest ==
    /\ pc = "send"
    /\ \E transportOK \in BOOLEAN, response \in RunResponses :
        LET r  == sendRequest(deleteRequest, transportOK, response)
            ev == Append(events, IF r.sent THEN "DELETE" ELSE "send(nil)")
        IN  IF r.panic
            THEN /\ Panic(ev)
                 /\ UNCHANGED <<deleteResponse, err, out>>
            ELSE /\ deleteResponse' = r.response
                 /\ err' = r.err
                 /\ out' = IF r.err.kind = "error"
                           THEN Append(out, "Failed to get delete call response")
                           ELSE out
                 /\ events' = ev
                 /\ pc' = "check"
                 /\ UNCHANGED <<exit, fatal, connection>>
    /\ UNCHANGED <<isDryRun, clusterID, reasonID, cluster, deleteRequest>>

\* delete.go:128-131: interpret the response; an error is only printed
CheckDelete ==
    /\ pc = "check"
    /\ LET r  == checkDelete(deleteResponse)
           ev == Append(events, "checkDelete")
       IN  IF r.panic
           THEN /\ Panic(ev)
                /\ UNCHANGED <<err, out>>
           ELSE /\ err' = r.err
                /\ out' = out \o r.out \o
                          (IF r.err.kind = "error"
                           THEN <<"check for delete call failed">> ELSE <<>>)
                /\ events' = ev
                /\ pc' = "return"
                /\ UNCHANGED <<exit, fatal, connection>>
    /\ UNCHANGED <<isDryRun, clusterID, reasonID, cluster, deleteRequest, deleteResponse>>

\* delete.go:133: return nil
Return ==
    /\ pc = "return"
    /\ ReturnNil(events)
    /\ UNCHANGED <<isDryRun, clusterID, reasonID, cluster, deleteRequest,
                   deleteResponse, err, out>>

Next ==
    \/ GetToken
    \/ BuildConnection
    \/ DryRunCheck
    \/ ConfirmSend
    \/ GetCluster
    \/ CreateRequest
    \/ SendRequest
    \/ CheckDelete
    \/ Return

Spec == Init /\ [][Next]_vars

-----------------------------------------------------------------------------
(* createDeleteRequest on its own, over every pair of bounded IDs. *)

InitPath ==
    /\ pc = "create"
    /\ isDryRun = FALSE
    /\ clusterID \in RunClusterIDs
    /\ reasonID \in SeqsUpTo(IDChars, MaxReasonIDLen)
    /\ connection = "open"
    /\ cluster \in [kind : {"cluster"}, id : SeqsUpTo(IDChars, MaxClusterIDLen)]
    /\ deleteRequest = Nil
    /\ deleteResponse = Nil
    /\ err = NoError
    /\ events = <<"build", "prompt", "confirmed", "GET">>
    /\ out = <<>>
    /\ fatal = "none"
    /\ exit = "running"

NextPath == CreateRequest

SpecPath == InitPath /\ [][NextPath]_vars

-----------------------------------------------------------------------------
(* checkDelete on its own, over every bounded response. *)

InitCheck ==
    /\ pc = "check"
    /\ isDryRun = FALSE
    /\ clusterID = <<"a">>
    /\ reasonID = <<"a">>
    /\ connection = "open"
    /\ cluster = [kind |-> "cluster", id |-> <<"4">>]
    /\ deleteRequest = createDeleteRequest(cluster, reasonID).request
    /\ deleteResponse \in
          {Nil} \cup [kind : {"response"}, status : Statuses,
                      body : SeqsUpTo(BodyTokens, MaxBodyLen)]
    /\ err = NoError
    /\ events = <<"build", "prompt", "confirmed", "GET", "DELETE">>
    /\ out = <<>>
    /\ fatal = "none"
    /\ exit = "running"

NextCheck == CheckDelete

SpecCheck == InitCheck /\ [][NextCheck]_vars

-----------------------------------------------------------------------------
(* Properties. *)

Range(seq) == {seq[i] : i \in 1..Len(seq)}

\* the events that are a call of sendRequest
SendEvents == {"DELETE", "send(nil)"}

\* C1: sendRequest is called only after confirmSend has returned in the same
\* run, and a dry run neither prompts nor sends.
C1_DeleteOnlyAfterConfirm ==
    /\ \A i \in 1..Len(events) :
          events[i] \in SendEvents
              => \E j \in 1..(i - 1) : events[j] = "confirmed"
    /\ isDryRun => Range(events) \cap (SendEvents \cup {"prompt", "confirmed"}) = {}

C1_Witness == "confirmed" \in Range(events) /\ "DELETE" \in Range(events)

\* C2: with the dry-run flag set, a run whose session was established shows no
\* prompt, issues no cluster GET and no DELETE, and ends by returning nil right
\* after the session was built.
C2_DryRunStopsAfterSession ==
    isDryRun =>
        /\ Range(events) \cap (SendEvents \cup {"prompt", "confirmed", "GET", "checkDelete"}) = {}
        /\ (pc = "exited" /\ "build" \in Range(events))
              => exit = "return_nil" /\ events = <<"build", "close">>

C2_Witness == isDryRun /\ exit = "return_nil" /\ reasonID = <<"%">>

\* C3: on each exit path the claim names (normal completion, the early dry-run
\* return, a fatal error after the session was built), a session that was
\* built has been closed when the command ends.
C3_SessionClosedOnEveryExit ==
    (pc = "exited" /\ "build" \in Range(events) /\ exit \in {"return_nil", "exit1"})
        => connection = "closed"

\* C4: the process ends with a nonzero status exactly when one of the three
\* fatal preconditions failed; every other run returns nil.  (A run the user
\* ended at the prompt is left out: its status belongs to the prompt.)
C4_NonzeroExitIffFatal ==
    (pc = "exited" /\ exit # "aborted")
        => /\ (exit # "return_nil") <=> (fatal # "none")
           /\ fatal # "none" => exit = "exit1"

\* C5: for a response with status 204, whatever its body, checkDelete prints
\* the success message and returns no error; the success message is printed
\* for no other status.
C5_NoContentIsSuccess ==
    (pc # "check" /\ deleteResponse.kind = "response")
        => /\ deleteResponse.status = StatusNoContent
                => pc = "return" /\ err = NoError /\ out = <<SuccessMessage>>
           /\ SuccessMessage \in Range(out)
                => deleteResponse.status = StatusNoContent

C5_Witness ==
    /\ pc = "return"
    /\ deleteResponse.kind = "response"
    /\ deleteResponse.status = StatusNoContent
    /\ deleteResponse.body = <<"not-json">>
    /\ out = <<SuccessMessage>>

\* C6, as stated: for a response whose body is not valid JSON, checkDelete
\* returns the error "server returned invalid JSON".
C6_InvalidJSONIsError ==
    (pc # "check" /\ deleteResponse.kind = "response" /\ ~JSONValid(deleteResponse.body))
        => err.kind = "error" /\ err.msg = "server returned invalid JSON"

\* C6, amended: for a response with a status other than 204 whose body is not
\* valid JSON, checkDelete returns the error "server returned invalid JSON".
C6_InvalidJSONIsErrorUnless204 ==
    (/\ pc # "check"
     /\ deleteResponse.kind = "response"
     /\ deleteResponse.status # StatusNoContent
     /\ ~JSONValid(deleteResponse.body))
        => /\ pc = "return"
           /\ err.kind = "error"
           /\ err.msg = "server returned invalid JSON"
           /\ out = <<"check for delete call failed">>

C6_Witness ==
    /\ pc = "return"
    /\ deleteResponse.kind = "response"
    /\ deleteResponse.status # StatusNoContent
    /\ deleteResponse.body = <<"not-json">>
    /\ err.kind = "error"

\* C7: for a response with a status other than 204 whose body is valid JSON
\* that unmarshals into a BadReply, checkDelete returns no error and prints
\* nothing, the success message included.
C7_BadReplyIsDiscarded ==
    (/\ pc # "check"
     /\ deleteResponse.kind = "response"
     /\ deleteResponse.status # StatusNoContent
     /\ JSONValid(deleteResponse.body)
     /\ Unmarshal(deleteResponse.body) = NoError)
        => pc = "return" /\ err = NoError /\ out = <<>>

C7_Witness ==
    /\ pc = "return"
    /\ deleteResponse.kind = "response"
    /\ deleteResponse.status = 400
    /\ deleteResponse.body = <<"{", StrReason, ":", StrOther, "}">>
    /\ err = NoError

\* the characters of an ID that url.Parse does not copy into the path as they
\* are: the escape, query and fragment marks, and the control bytes it rejects
PathUnsafeChars == {"%", "?", "#"} \cup ControlChars
PathSafe(id) == Range(id) \cap PathUnsafeChars = {}

\* C8: for a cluster ID and a reason ID without path-unsafe characters, the
\* request createDeleteRequest returns is a DELETE whose path is exactly
\* "/api/clusters_mgmt/v1/clusters/" + cluster.ID + "/limited_support_reasons/"
\* + reasonID, with no query, whatever else the run holds.
C8_PathIsExact ==
    (pc = "send" /\ PathSafe(cluster.id) /\ PathSafe(reasonID))
        => /\ err = NoError
           /\ deleteRequest.kind = "request"
           /\ deleteRequest.method = "DELETE"
           /\ deleteRequest.path = PathPrefix \o cluster.id \o PathMid \o reasonID
           /\ deleteRequest.query = <<>>

C8_Witness ==
    /\ pc = "send"
    /\ cluster.id = <<"4">>
    /\ reasonID = <<"a", "4", "a">>
    /\ deleteRequest.kind = "request"

\* the path argument of the current cluster and reason ID cannot be applied
PathFails == cluster.kind = "cluster" /\ ~URLParse(TargetAPIPath(cluster.id, reasonID)).ok

\* C9: when the path argument cannot be applied, createDeleteRequest returns an
\* error and a nil request, and run() prints the error and goes on to call
\* sendRequest with that nil request.
C9_ConstructionErrorContinues ==
    (PathFails /\ pc # "create")
        => /\ deleteRequest = Nil
           /\ "failed post call" \in Range(out)
           /\ \/ pc = "send" /\ exit = "running" /\ err.kind = "error"
              \/ "send(nil)" \in Range(events)

C9_Witness == PathFails /\ "send(nil)" \in Range(events)

\* C10: when sending fails, run() prints the failure and calls checkDelete with
\* the nil response; and every run that is not a dry run and got its cluster
\* reaches checkDelete.
C10_InterpretationAlwaysReached ==
    /\ "Failed to get delete call response" \in Range(out)
          => deleteResponse = Nil /\ (pc = "check" \/ "checkDelete" \in Range(events))
    /\ (pc = "exited" /\ cluster.kind = "cluster")
          => "checkDelete" \in Range(events)

====
